---------------------------- MODULE Spec2Model ----------------------------
(* Model of eskiz_sms/request.py: the authenticated request executor       *)
(* (Request.request / Request.async_request), the response classifier      *)
(* (BaseRequest._check_response, BaseRequest._bad_request), the token       *)
(* provider and HTTP transport they talk to, and the entries into the       *)
(* dispatcher (Request.__call__, the endpoint decorators, Coro).            *)
(*   Spec         the executor, every call already at its first step        *)
(*   FairSpec     Spec with every call's steps weakly fair                  *)
(*   AdapterSpec  the entries, up to the point where the executor starts    *)
EXTENDS Integers, Sequences, FiniteSets, TLC

\* ------------------------------------------------------------------ bounds
NumCalls == 2                  \* logical calls made through one dispatcher

MaxPhoneLen == 2               \* longest enumerated mobile_phone value

Calls == 1..NumCalls

\* ------------------------------------------------------- values and tables
None == "None"                 \* Python's None: dict.get of a missing key

BASE_URL == "https://notify.eskiz.uz/api"

_url(path) == <<BASE_URL, path>>

\* enums.Status.TOKEN_INVALID and enums.Message.EXPIRED_TOKEN, the sentinel pair
TOKEN_INVALID == "token_invalid"

EXPIRED_TOKEN == "Token expired"

\* http.client.responses, restricted to the status codes of the model;
\* 520 is a status code the table has no phrase for
responses == [s \in {200, 201, 204, 401} |->
                CASE s = 200 -> "OK"
                  [] s = 201 -> "Created"
                  [] s = 204 -> "No Content"
                  [] s = 401 -> "Unauthorized"]

\* A parsed JSON body: an object (dict) over the keys the code reads, or a
\* JSON value that is not an object (a list).
Dict(status, message, api_version) ==
    [type |-> "dict", status |-> status, message |-> message,
     api_version |-> api_version]

JsonList == [type |-> "list", status |-> None, message |-> None, api_version |-> None]

NoData == [type |-> "none", status |-> None, message |-> None, api_version |-> None]

DictBodies ==
    { Dict(None, None, None), Dict(TOKEN_INVALID, EXPIRED_TOKEN, None),
      Dict(TOKEN_INVALID, "", None), Dict(None, EXPIRED_TOKEN, None) }

\* API_VERSION_RE.search(text).groups()[0], None when there is no match
API_VERSION_RE(text) == IF text = "API version: 4.12" THEN "4.12" ELSE None

\* What one transport exchange gives back: an httpx.Response whose body is
\* JSON or plain text, or an httpx.HTTPError raised by the client.
JsonResponse(code, data) == [kind |-> "json", status_code |-> code, data |-> data, text |-> ""]

TextResponse(code, text) == [kind |-> "text", status_code |-> code, data |-> NoData, text |-> text]

TransportFailure == [kind |-> "error", status_code |-> 0, data |-> NoData, text |-> ""]

\* The transport results of the model: every object body under every status
\* code, and the other bodies under the status codes that tell their paths apart
TransportResults ==
    { JsonResponse(s, d) : s \in {200, 201, 204, 401, 520}, d \in DictBodies }
      \cup { JsonResponse(s, JsonList) : s \in {200, 204, 401} }
      \cup { TextResponse(s, "API version: 4.12") : s \in {200, 204} }
      \cup { TextResponse(s, "") : s \in {200, 204} }
      \cup { TransportFailure }

\* ------------------------------------------------------------ value objects
\* dataclass _Response
_Response(status_code, data, token_expired) ==
    [status_code |-> status_code, data |-> data, token_expired |-> token_expired]

NoResponse == _Response(0, NoData, FALSE)

\* dataclass _Request; headers is a set of <<name, value>> pairs, {} for None
_Request(method, url, data, headers) ==
    [method |-> method, url |-> url, data |-> data, headers |-> headers]

_prepare_request(method, path, data, headers) == _Request(method, _url(path), data, headers)

\* How a call ends: a returned data mapping or a raised exception
Returned(data) ==
    [kind |-> "return", data |-> data, message |-> None, status |-> None, status_code |-> 0]

Raised(kind, message, status, status_code) ==
    [kind |-> kind, data |-> NoData, message |-> message, status |-> status,
     status_code |-> status_code]

NoOutcome == [kind |-> "pending", data |-> NoData, message |-> None, status |-> None,
              status_code |-> 0]

AttributeError == Raised("AttributeError", None, None, 0)

KeyError == Raised("KeyError", None, None, 0)

HTTPError == Raised("HTTPError", "str(e)", None, 0)

\* ----------------------------------------------------------------- classifier
\* BadRequest(message=data.get('message') or responses[status_code],
\*            status=data.get('status'), status_code=status_code);
\* the value is the exception that comes out of evaluating the expression
_bad_request(_response) ==
    IF _response.data.type # "dict"
    THEN AttributeError                       \* .get on a value that is no dict
    ELSE IF _response.data.message \notin {None, ""}
    THEN Raised("BadRequest", _response.data.message, _response.data.status,
                _response.status_code)
    ELSE IF _response.status_code \notin DOMAIN responses
    THEN KeyError                             \* responses[status_code]
    ELSE Raised("BadRequest", responses[_response.status_code], _response.data.status,
                _response.status_code)

\* The result of _check_response: the _Response it returns, or the exception
\* it raises (exc.kind = "pending" when it returns)
Returns(response) == [response |-> response, exc |-> NoOutcome]

Throws(exc) == [response |-> NoResponse, exc |-> exc]

\* Mutant of _classify: 201 is taken for a failure
_classify_only_200(response) ==
    IF response.status_code = 401 /\ response.data.type # "dict"
    THEN Throws(AttributeError)
    ELSE IF /\ response.status_code = 401
            /\ response.data.status = TOKEN_INVALID
            /\ response.data.message = EXPIRED_TOKEN
    THEN Returns(_Response(response.status_code, response.data, TRUE))
    ELSE IF response.status_code # 200
    THEN Throws(_bad_request(response))
    ELSE Returns(response)

\* Lines 91-100: token-expiry detection, then the status test
_classify(response) ==
    IF response.status_code = 401 /\ response.data.type # "dict"
    THEN Throws(AttributeError)
    ELSE IF /\ response.status_code = 401
            /\ response.data.status = TOKEN_INVALID
            /\ response.data.message = EXPIRED_TOKEN
    THEN Returns(_Response(response.status_code, response.data, TRUE))
    ELSE IF response.status_code \notin {200, 201}
    THEN Throws(_bad_request(response))
    ELSE Returns(response)

\* Lines 76-89: parse the body. In the JSONDecodeError handler the local
\* `response` is still None, and line 81 reads response.status_code.
_check_response(r) ==
    IF r.kind = "json"
    THEN _classify(_Response(r.status_code, r.data, FALSE))
    ELSE LET response_is_None == TRUE
         IN  IF response_is_None
             THEN Throws(AttributeError)
             ELSE IF r.status_code = 200 /\ API_VERSION_RE(r.text) # None
             THEN _classify(_Response(r.status_code,
                                      Dict(None, None, API_VERSION_RE(r.text)), FALSE))
             ELSE _classify(_Response(r.status_code,
                                      Dict(None, responses[r.status_code], None), FALSE))

\* Mutant of _request: the transport failure comes out as a BadRequest
_request_as_bad_request(r) ==
    IF r.kind = "error" THEN Throws(Raised("BadRequest", "str(e)", None, 0))
    ELSE _check_response(r)

\* BaseRequest._request / _a_request: one exchange, classified; httpx.HTTPError
\* becomes HTTPError, every other exception passes through
_request(r) ==
    IF r.kind = "error" THEN Throws(HTTPError) ELSE _check_response(r)

\* Mutant of _finish: only 200 counts as success
_finish_only_200(response) ==
    IF response.status_code # 200
    THEN _bad_request(response)
    ELSE Returned(response.data)

\* Lines 139-141 / 152-154: the status test on the final response
_finish(response) ==
    IF response.status_code \notin {200, 201}
    THEN _bad_request(response)
    ELSE Returned(response.data)

\* ------------------------------------------------------------------- state
VARIABLES
    is_async,      \* Request._is_async of the dispatcher
    auto_update,   \* token.auto_update
    held,          \* the token value the provider holds
    pc,            \* where each call is
    token_value,   \* each call's local _token_value (0: not read yet)
    req,           \* each call's _Request object
    sent,          \* each call's requests as handed to the transport
    recv,          \* each call's transport results, in order
    updates,       \* token.update invocations made by each call
    refreshed,     \* the token the provider held when the call's update returned
    outcome,       \* what each call returned or raised
    endpoint,      \* the endpoint declared through the dispatcher's decorators
    invocation     \* the entry into the dispatcher: __call__ or a decorated endpoint

vars == <<is_async, auto_update, held, pc, token_value, req, sent, recv, updates,
          refreshed, outcome, endpoint, invocation>>

\* No endpoint declared, no entry made
NoEndpoint ==
    [via |-> "none", method |-> None, path |-> None, response_model |-> None,
     state |-> "none"]

NoInvocation == [kind |-> "none", call |-> 0, payload |-> NoData, result |-> "none"]

\* Mutant of Bearer: no Authorization entry
Bearer_missing(t) == {}

\* {"Authorization": f"Bearer {_token_value}"}
Bearer(t) == {<<"Authorization", <<"Bearer", t>>>>}

Init ==
    /\ is_async \in BOOLEAN
    /\ auto_update \in BOOLEAN
    /\ held = 1
    /\ pc = [c \in Calls |-> "start"]
    /\ token_value = [c \in Calls |-> 0]
    /\ req = [c \in Calls |-> _prepare_request("POST", "/message/sms/send", NoData, {})]
    /\ sent = [c \in Calls |-> <<>>]
    /\ recv = [c \in Calls |-> <<>>]
    /\ updates = [c \in Calls |-> 0]
    /\ refreshed = [c \in Calls |-> 0]
    /\ outcome = [c \in Calls |-> NoOutcome]
    /\ endpoint = NoEndpoint
    /\ invocation = NoInvocation

\* --------------------------------------------------- token provider (token.py)
\* token.get(): the held token value
TokenGet == held

\* token.update(): re-authenticate, the provider then holds a fresh token
TokenUpdate == held + 1

\* ------------------------------------------- Request.async_request (130-141)
\* Each await is a suspension point: other calls may run between the steps.

\* Mutant of async_request_get: token.get() is not awaited, no token is read
async_request_get_not_awaited(c) ==
    /\ is_async
    /\ pc[c] = "start"
    /\ pc' = [pc EXCEPT ![c] = "got"]
    /\ UNCHANGED <<endpoint, invocation, is_async, auto_update, held, token_value, req, sent, recv, updates,
                   refreshed, outcome>>

\* _token_value = await token.get()
async_request_get(c) ==
    /\ is_async
    /\ pc[c] = "start"
    /\ token_value' = [token_value EXCEPT ![c] = TokenGet]
    /\ pc' = [pc EXCEPT ![c] = "got"]
    /\ UNCHANGED <<endpoint, invocation, is_async, auto_update, held, req, sent, recv, updates, refreshed, outcome>>

\* _request.headers = {...}; self._a_request(_request) hands it to the transport
async_request_send(c) ==
    /\ is_async
    /\ pc[c] = "got"
    /\ LET r == [req[c] EXCEPT !.headers = Bearer(token_value[c])]
       IN  /\ req' = [req EXCEPT ![c] = r]
           /\ sent' = [sent EXCEPT ![c] = Append(@, r)]
    /\ pc' = [pc EXCEPT ![c] = "wait1"]
    /\ UNCHANGED <<endpoint, invocation, is_async, auto_update, held, token_value, recv, updates, refreshed, outcome>>

\* response = await self._a_request(_request) resumes; lines 136 and 139-141
async_request_recv(c) ==
    /\ is_async
    /\ pc[c] = "wait1"
    /\ \E r \in TransportResults :
         LET cr == _request(r)
         IN  /\ recv' = [recv EXCEPT ![c] = Append(@, r)]
             /\ IF cr.exc.kind # "pending"
                THEN /\ outcome' = [outcome EXCEPT ![c] = cr.exc]
                     /\ pc' = [pc EXCEPT ![c] = "done"]
                ELSE IF cr.response.token_expired /\ auto_update
                THEN /\ pc' = [pc EXCEPT ![c] = "refresh"]
                     /\ UNCHANGED outcome
                ELSE /\ outcome' = [outcome EXCEPT ![c] = _finish(cr.response)]
                     /\ pc' = [pc EXCEPT ![c] = "done"]
    /\ UNCHANGED <<endpoint, invocation, is_async, auto_update, held, token_value, req, sent, updates, refreshed>>

\* Mutant of async_request_update: a call skips its refresh when another call
\* has refreshed since it read the token
async_request_update_coalesced(c) ==
    /\ is_async
    /\ pc[c] = "refresh"
    /\ IF held > token_value[c]
       THEN UNCHANGED <<held, updates, refreshed>>
       ELSE /\ held' = TokenUpdate
            /\ updates' = [updates EXCEPT ![c] = @ + 1]
            /\ refreshed' = [refreshed EXCEPT ![c] = held']
    /\ pc' = [pc EXCEPT ![c] = "resend"]
    /\ UNCHANGED <<endpoint, invocation, is_async, auto_update, token_value, req, sent, recv, outcome>>

\* await token.update()
async_request_update(c) ==
    /\ is_async
    /\ pc[c] = "refresh"
    /\ held' = TokenUpdate
    /\ updates' = [updates EXCEPT ![c] = @ + 1]
    /\ refreshed' = [refreshed EXCEPT ![c] = held']
    /\ pc' = [pc EXCEPT ![c] = "resend"]
    /\ UNCHANGED <<endpoint, invocation, is_async, auto_update, token_value, req, sent, recv, outcome>>

\* Mutant of async_request_resend: the headers are assigned again before the resend
async_request_resend_rebuilds(c) ==
    /\ is_async
    /\ pc[c] = "resend"
    /\ LET r == [req[c] EXCEPT !.headers = Bearer(TokenGet)]
       IN  /\ req' = [req EXCEPT ![c] = r]
           /\ sent' = [sent EXCEPT ![c] = Append(@, r)]
    /\ pc' = [pc EXCEPT ![c] = "wait2"]
    /\ UNCHANGED <<endpoint, invocation, is_async, auto_update, held, token_value, recv, updates, refreshed, outcome>>

\* self._a_request(_request) again, with the same _request object
async_request_resend(c) ==
    /\ is_async
    /\ pc[c] = "resend"
    /\ sent' = [sent EXCEPT ![c] = Append(@, req[c])]
    /\ pc' = [pc EXCEPT ![c] = "wait2"]
    /\ UNCHANGED <<endpoint, invocation, is_async, auto_update, held, token_value, req, recv, updates, refreshed, outcome>>

\* Mutant of async_request_recv2: a second token-expired response refreshes again
async_request_recv2_loop(c) ==
    /\ is_async
    /\ pc[c] = "wait2"
    /\ \E r \in TransportResults :
         LET cr == _request(r)
         IN  /\ recv' = [recv EXCEPT ![c] = Append(@, r)]
             /\ IF cr.exc.kind = "pending" /\ cr.response.token_expired /\ auto_update
                THEN /\ pc' = [pc EXCEPT ![c] = "refresh"]
                     /\ UNCHANGED outcome
                ELSE /\ outcome' = [outcome EXCEPT ![c] =
                                      IF cr.exc.kind # "pending" THEN cr.exc
                                      ELSE _finish(cr.response)]
                     /\ pc' = [pc EXCEPT ![c] = "done"]
    /\ UNCHANGED <<endpoint, invocation, is_async, auto_update, held, token_value, req, sent, updates, refreshed>>

\* the second response = await self._a_request(_request) resumes; lines 139-141
async_request_recv2(c) ==
    /\ is_async
    /\ pc[c] = "wait2"
    /\ \E r \in TransportResults :
         LET cr == _request(r)
         IN  /\ recv' = [recv EXCEPT ![c] = Append(@, r)]
             /\ outcome' = [outcome EXCEPT ![c] =
                              IF cr.exc.kind # "pending" THEN cr.exc
                              ELSE _finish(cr.response)]
             /\ pc' = [pc EXCEPT ![c] = "done"]
    /\ UNCHANGED <<endpoint, invocation, is_async, auto_update, held, token_value, req, sent, updates, refreshed>>

\* ------------------------------------------------- Request.request (143-154)
\* Blocking mode: the call runs on the calling thread to completion, so no
\* other call of the dispatcher is under way while it runs.
Blocking(c) == ~is_async /\ \A d \in Calls \ {c} : pc[d] \in {"start", "done"}

\* _token_value = token.get()
request_get(c) ==
    /\ Blocking(c)
    /\ pc[c] = "start"
    /\ token_value' = [token_value EXCEPT ![c] = TokenGet]
    /\ pc' = [pc EXCEPT ![c] = "got"]
    /\ UNCHANGED <<endpoint, invocation, is_async, auto_update, held, req, sent, recv, updates, refreshed, outcome>>

\* _request.headers = {...}; self._request(_request) hands it to the transport
request_send(c) ==
    /\ Blocking(c)
    /\ pc[c] = "got"
    /\ LET r == [req[c] EXCEPT !.headers = Bearer(token_value[c])]
       IN  /\ req' = [req EXCEPT ![c] = r]
           /\ sent' = [sent EXCEPT ![c] = Append(@, r)]
    /\ pc' = [pc EXCEPT ![c] = "wait1"]
    /\ UNCHANGED <<endpoint, invocation, is_async, auto_update, held, token_value, recv, updates, refreshed, outcome>>

\* Mutant of request_recv: the refresh does not look at token.auto_update
request_recv_ignores_flag(c) ==
    /\ Blocking(c)
    /\ pc[c] = "wait1"
    /\ \E r \in TransportResults :
         LET cr == _request(r)
         IN  /\ recv' = [recv EXCEPT ![c] = Append(@, r)]
             /\ IF cr.exc.kind # "pending"
                THEN /\ outcome' = [outcome EXCEPT ![c] = cr.exc]
                     /\ pc' = [pc EXCEPT ![c] = "done"]
                ELSE IF cr.response.token_expired
                THEN /\ pc' = [pc EXCEPT ![c] = "refresh"]
                     /\ UNCHANGED outcome
                ELSE /\ outcome' = [outcome EXCEPT ![c] = _finish(cr.response)]
                     /\ pc' = [pc EXCEPT ![c] = "done"]
    /\ UNCHANGED <<endpoint, invocation, is_async, auto_update, held, token_value, req, sent, updates, refreshed>>

\* response = self._request(_request) returns; lines 149 and 152-154
request_recv(c) ==
    /\ Blocking(c)
    /\ pc[c] = "wait1"
    /\ \E r \in TransportResults :
         LET cr == _request(r)
         IN  /\ recv' = [recv EXCEPT ![c] = Append(@, r)]
             /\ IF cr.exc.kind # "pending"
                THEN /\ outcome' = [outcome EXCEPT ![c] = cr.exc]
                     /\ pc' = [pc EXCEPT ![c] = "done"]
                ELSE IF cr.response.token_expired /\ auto_update
                THEN /\ pc' = [pc EXCEPT ![c] = "refresh"]
                     /\ UNCHANGED outcome
                ELSE /\ outcome' = [outcome EXCEPT ![c] = _finish(cr.response)]
                     /\ pc' = [pc EXCEPT ![c] = "done"]
    /\ UNCHANGED <<endpoint, invocation, is_async, auto_update, held, token_value, req, sent, updates, refreshed>>

\* Mutant of request_update: the refresh is skipped in the blocking executor
request_update_skipped(c) ==
    /\ Blocking(c)
    /\ pc[c] = "refresh"
    /\ pc' = [pc EXCEPT ![c] = "resend"]
    /\ UNCHANGED <<endpoint, invocation, is_async, auto_update, held, token_value, req, sent, recv, updates,
                   refreshed, outcome>>

\* token.update()
request_update(c) ==
    /\ Blocking(c)
    /\ pc[c] = "refresh"
    /\ held' = TokenUpdate
    /\ updates' = [updates EXCEPT ![c] = @ + 1]
    /\ refreshed' = [refreshed EXCEPT ![c] = held']
    /\ pc' = [pc EXCEPT ![c] = "resend"]
    /\ UNCHANGED <<endpoint, invocation, is_async, auto_update, token_value, req, sent, recv, outcome>>

\* self._request(_request) again, with the same _request object
request_resend(c) ==
    /\ Blocking(c)
    /\ pc[c] = "resend"
    /\ sent' = [sent EXCEPT ![c] = Append(@, req[c])]
    /\ pc' = [pc EXCEPT ![c] = "wait2"]
    /\ UNCHANGED <<endpoint, invocation, is_async, auto_update, held, token_value, req, recv, updates, refreshed, outcome>>

\* Mutant of request_recv2: a second token-expired response leaves the call
\* waiting for a refresh that nothing starts
request_recv2_waits(c) ==
    /\ Blocking(c)
    /\ pc[c] = "wait2"
    /\ \E r \in TransportResults :
         LET cr == _request(r)
         IN  /\ recv' = [recv EXCEPT ![c] = Append(@, r)]
             /\ IF cr.exc.kind = "pending" /\ cr.response.token_expired
                THEN /\ pc' = [pc EXCEPT ![c] = "waiting"]
                     /\ UNCHANGED outcome
                ELSE /\ outcome' = [outcome EXCEPT ![c] =
                                      IF cr.exc.kind # "pending" THEN cr.exc
                                      ELSE _finish(cr.response)]
                     /\ pc' = [pc EXCEPT ![c] = "done"]
    /\ UNCHANGED <<endpoint, invocation, is_async, auto_update, held, token_value, req, sent, updates, refreshed>>

\* the second response = self._request(_request) returns; lines 152-154
request_recv2(c) ==
    /\ Blocking(c)
    /\ pc[c] = "wait2"
    /\ \E r \in TransportResults :
         LET cr == _request(r)
         IN  /\ recv' = [recv EXCEPT ![c] = Append(@, r)]
             /\ outcome' = [outcome EXCEPT ![c] =
                              IF cr.exc.kind # "pending" THEN cr.exc
                              ELSE _finish(cr.response)]
             /\ pc' = [pc EXCEPT ![c] = "done"]
    /\ UNCHANGED <<endpoint, invocation, is_async, auto_update, held, token_value, req, sent, updates, refreshed>>

\* -------------------------------------------------------------- specification
Next ==
    \E c \in Calls :
        \/ async_request_get(c)
        \/ async_request_send(c)
        \/ async_request_recv(c)
        \/ async_request_update(c)
        \/ async_request_resend(c)
        \/ async_request_recv2(c)
        \/ request_get(c)
        \/ request_send(c)
        \/ request_recv(c)
        \/ request_update(c)
        \/ request_resend(c)
        \/ request_recv2(c)

Spec == Init /\ [][Next]_vars

\* ------------------------------------------------ payloads (lines 156-163)
\* A payload is a dict: a function from the keys it has to their values. The
\* mobile_phone value is a string as a sequence of characters.
EmptyDict == [k \in {} |-> None]

PhoneChars == {"+", " ", "9"}

Phones == UNION { [1..n -> PhoneChars] : n \in 0..MaxPhoneLen }

\* "+998 90 123 45 67"
ExamplePhone ==
    <<"+", "9", "9", "8", " ", "9", "0", " ", "1", "2", "3", " ", "4", "5", " ", "6", "7">>

PayloadKeys == {"from_whom", "from", "mobile_phone", "message"}

\* the dicts a caller or a payload-builder hands over; NoData stands for None
Payloads ==
    { [k \in D |-> CASE k = "from_whom" -> "4546"
                     [] k = "from" -> "1234"
                     [] k = "message" -> "hi"
                     [] k = "mobile_phone" -> ph] :
        D \in SUBSET PayloadKeys, ph \in Phones \cup {ExamplePhone} }
      \cup {NoData}

\* str.replace(old, new) for a one-character old
RECURSIVE replace(_, _, _)
replace(str, old, new) ==
    IF str = <<>> THEN <<>>
    ELSE (IF Head(str) = old THEN new ELSE <<Head(str)>>) \o replace(Tail(str), old, new)

\* Mutant of _prepare_payload: from_whom is copied to from and not removed
_prepare_payload_keeps_from_whom(payload) ==
    LET p0 == IF payload = NoData \/ payload = EmptyDict THEN EmptyDict ELSE payload
        p1 == IF "from_whom" \in DOMAIN p0
              THEN [k \in DOMAIN p0 \cup {"from"} |->
                       IF k = "from" THEN p0["from_whom"] ELSE p0[k]]
              ELSE p0
    IN  IF "mobile_phone" \in DOMAIN p1
        THEN [p1 EXCEPT !["mobile_phone"] = replace(replace(@, "+", <<>>), " ", <<>>)]
        ELSE p1

\* Request._prepare_payload
_prepare_payload(payload) ==
    LET \* payload = payload or {}
        p0 == IF payload = NoData \/ payload = EmptyDict THEN EmptyDict ELSE payload
        \* payload['from'] = payload.pop('from_whom')
        p1 == IF "from_whom" \in DOMAIN p0
              THEN [k \in (DOMAIN p0 \ {"from_whom"}) \cup {"from"} |->
                       IF k = "from" THEN p0["from_whom"] ELSE p0[k]]
              ELSE p0
    IN  \* payload['mobile_phone'].replace("+", "").replace(" ", "")
        IF "mobile_phone" \in DOMAIN p1
        THEN [p1 EXCEPT !["mobile_phone"] = replace(replace(@, "+", <<>>), " ", <<>>)]
        ELSE p1

\* ------------------------------------------- dispatcher entries (119-128, 102-112, 165-197)
Methods == {"GET", "POST", "PUT", "PATCH", "DELETE"}

Paths == {"/message/sms/send", "/auth/user"}

ResponseModels == {None, "Model"}

\* a call that was not made yet has no request
NoRequest == _Request(None, <<None, None>>, NoData, {})

\* Binding a call of _method_decorator(self, *, method, path, response_model=None):
\* positional arguments beyond self and a missing method or path raise TypeError
_method_decorator(nargs, kwargs, via, path) ==
    IF nargs > 0 \/ ~({"method", "path"} \subseteq DOMAIN kwargs)
    THEN [via |-> via, method |-> kwargs.method, path |-> path,
          response_model |-> kwargs.response_model, state |-> "TypeError"]
    ELSE [via |-> via, method |-> kwargs.method, path |-> kwargs.path,
          response_model |-> kwargs.response_model, state |-> "bound"]

\* partial(self._method_decorator, method=..., response_model=...) applied to
\* the decorated function fn: one positional argument, the bound keywords
partial(method, response_model, via, path) ==
    _method_decorator(1, [method |-> method, response_model |-> response_model], via, path)

\* @request.post(path, response_model) on a function
post ==
    /\ endpoint = NoEndpoint
    /\ \E path \in Paths, response_model \in ResponseModels :
          endpoint' = partial("POST", response_model, "post", path)
    /\ UNCHANGED <<is_async, auto_update, held, pc, token_value, req, sent, recv, updates,
                   refreshed, outcome, invocation>>

\* @request.put(path, response_model) on a function
put ==
    /\ endpoint = NoEndpoint
    /\ \E path \in Paths, response_model \in ResponseModels :
          endpoint' = partial("PUT", response_model, "put", path)
    /\ UNCHANGED <<is_async, auto_update, held, pc, token_value, req, sent, recv, updates,
                   refreshed, outcome, invocation>>

\* @request.get(path, response_model) on a function
get ==
    /\ endpoint = NoEndpoint
    /\ \E path \in Paths, response_model \in ResponseModels :
          endpoint' = partial("GET", response_model, "get", path)
    /\ UNCHANGED <<is_async, auto_update, held, pc, token_value, req, sent, recv, updates,
                   refreshed, outcome, invocation>>

\* @request.delete(path, response_model) on a function
delete ==
    /\ endpoint = NoEndpoint
    /\ \E path \in Paths, response_model \in ResponseModels :
          endpoint' = partial("DELETE", response_model, "delete", path)
    /\ UNCHANGED <<is_async, auto_update, held, pc, token_value, req, sent, recv, updates,
                   refreshed, outcome, invocation>>

\* @request.patch(path, response_model) on a function
patch ==
    /\ endpoint = NoEndpoint
    /\ \E path \in Paths, response_model \in ResponseModels :
          endpoint' = partial("PATCH", response_model, "patch", path)
    /\ UNCHANGED <<is_async, auto_update, held, pc, token_value, req, sent, recv, updates,
                   refreshed, outcome, invocation>>

\* request._method_decorator(method=..., path=..., response_model=...)(fn):
\* the decorator called with its keywords
decorator ==
    /\ endpoint = NoEndpoint
    /\ \E method \in Methods, path \in Paths, response_model \in ResponseModels :
          endpoint' = _method_decorator(0, [method |-> method, path |-> path,
                                            response_model |-> response_model],
                                        "_method_decorator", path)
    /\ UNCHANGED <<is_async, auto_update, held, pc, token_value, req, sent, recv, updates,
                   refreshed, outcome, invocation>>

\* Request.__call__: normalise the payload, build the request, hand it to the
\* executor of the dispatcher's mode
__call__(c) ==
    /\ invocation = NoInvocation
    /\ pc[c] = "idle"
    /\ \E method \in Methods, path \in Paths, payload \in Payloads :
          /\ req' = [req EXCEPT ![c] =
                        _prepare_request(method, path, _prepare_payload(payload), {})]
          /\ invocation' = [kind |-> "__call__", call |-> c, payload |-> payload,
                            result |-> IF is_async THEN "coroutine" ELSE "running"]
    /\ pc' = [pc EXCEPT ![c] = "start"]
    /\ UNCHANGED <<is_async, auto_update, held, token_value, sent, recv, updates,
                   refreshed, outcome, endpoint>>

\* Coro.__init__: line 105 reads self.return_type, which no line has assigned
Coro(coro, return_type) ==
    LET return_type_assigned == FALSE
    IN  IF return_type_assigned THEN "Coro" ELSE "AttributeError"

\* _wrapper of a decorated endpoint: fn's return value goes into the request
\* as it is; the blocking mode runs the executor, the async mode wraps the
\* coroutine, which has not started, in a Coro
_wrapper(c) ==
    /\ endpoint.state = "bound"
    /\ invocation = NoInvocation
    /\ pc[c] = "idle"
    /\ \E _returned_val \in Payloads :
          /\ req' = [req EXCEPT ![c] =
                        _prepare_request(endpoint.method, endpoint.path, _returned_val, {})]
          /\ invocation' = [kind |-> "_wrapper", call |-> c, payload |-> _returned_val,
                            result |-> IF is_async
                                       THEN Coro("async_request", endpoint.response_model)
                                       ELSE "running"]
    /\ pc' = [pc EXCEPT ![c] = IF is_async THEN "idle" ELSE "start"]
    /\ UNCHANGED <<is_async, auto_update, held, token_value, sent, recv, updates,
                   refreshed, outcome, endpoint>>

InitAdapter ==
    /\ is_async \in BOOLEAN
    /\ auto_update \in BOOLEAN
    /\ held = 1
    /\ pc = [c \in Calls |-> "idle"]
    /\ token_value = [c \in Calls |-> 0]
    /\ req = [c \in Calls |-> NoRequest]
    /\ sent = [c \in Calls |-> <<>>]
    /\ recv = [c \in Calls |-> <<>>]
    /\ updates = [c \in Calls |-> 0]
    /\ refreshed = [c \in Calls |-> 0]
    /\ outcome = [c \in Calls |-> NoOutcome]
    /\ endpoint = NoEndpoint
    /\ invocation = NoInvocation

NextAdapter ==
    \/ post
    \/ put
    \/ get
    \/ delete
    \/ patch
    \/ decorator
    \/ \E c \in Calls : __call__(c)
    \/ \E c \in Calls : _wrapper(c)

\* The entries into the dispatcher, up to the point where the executor starts
AdapterSpec == InitAdapter /\ [][NextAdapter]_vars

\* One step of call c, in either executor
Run(c) ==
    \/ async_request_get(c) \/ async_request_send(c) \/ async_request_recv(c)
    \/ async_request_update(c) \/ async_request_resend(c) \/ async_request_recv2(c)
    \/ request_get(c) \/ request_send(c) \/ request_recv(c)
    \/ request_update(c) \/ request_resend(c) \/ request_recv2(c)

\* The transport and the token provider answer every call made to them, and
\* the caller (the thread, the event loop) runs every call that can go on.
FairSpec == Spec /\ \A c \in Calls : WF_vars(Run(c))

\* ------------------------------------------------------------------ claims
\* What the transport gave back, read off the raw result
IsResponse(r) == r.kind \in {"json", "text"}

\* a 401 whose JSON body carries the token-expiry sentinel pair
IsExpiredSignal(r) ==
    /\ r.kind = "json"
    /\ r.status_code = 401
    /\ r.data.type = "dict"
    /\ r.data.status = TOKEN_INVALID
    /\ r.data.message = EXPIRED_TOKEN

\* a 200/201 with a JSON body
IsJsonSuccess(r) == r.kind = "json" /\ r.status_code \in {200, 201}

\* the standard phrase of a status code
StandardPhrase(s) == IF s \in DOMAIN responses THEN responses[s] ELSE "<no phrase>"

\* the body's message field, None when the body has none
BodyMessage(r) == IF r.kind = "json" /\ r.data.type = "dict" THEN r.data.message ELSE None

FirstIs(c, P(_)) == Len(recv[c]) >= 1 /\ P(recv[c][1])

\* C1: a call whose first response is the token-expiry signal, with
\* auto_update set, invokes token.update exactly once and sends exactly once
\* more; when the resend is a 200/201 the call returns the resend's data.
C1_RefreshAndResendOnce ==
    \A c \in Calls :
        (auto_update /\ FirstIs(c, IsExpiredSignal)) =>
            /\ updates[c] <= 1
            /\ Len(sent[c]) <= 2
            /\ pc[c] = "done" =>
                  /\ updates[c] = 1
                  /\ Len(sent[c]) = 2
                  /\ Len(recv[c]) = 2
                  /\ IsJsonSuccess(recv[c][2]) => outcome[c] = Returned(recv[c][2].data)

C1_Witness ==
    \E c \in Calls :
        /\ auto_update /\ FirstIs(c, IsExpiredSignal)
        /\ pc[c] = "done" /\ Len(recv[c]) = 2 /\ IsJsonSuccess(recv[c][2])
        /\ outcome[c].kind = "return" /\ updates[c] = 1

\* C2: the resent request carries the Authorization header of the token the
\* provider held after update() returned.
C2_ResendCarriesFreshToken ==
    \A c \in Calls :
        Len(sent[c]) = 2 => sent[c][2].headers = Bearer(refreshed[c])

\* C3: when the resend is token-expired too, the call raises BadRequest built
\* from the second response and never invokes token.update a second time.
C3_SecondExpiryRaises ==
    \A c \in Calls :
        /\ updates[c] <= 1
        /\ (auto_update /\ pc[c] = "done" /\ Len(recv[c]) = 2 /\ IsExpiredSignal(recv[c][2])) =>
              /\ outcome[c] = Raised("BadRequest", recv[c][2].data.message,
                                     recv[c][2].data.status, recv[c][2].status_code)
              /\ updates[c] = 1

C3_Witness ==
    \E c \in Calls :
        /\ pc[c] = "done" /\ Len(recv[c]) = 2
        /\ IsExpiredSignal(recv[c][1]) /\ IsExpiredSignal(recv[c][2])
        /\ outcome[c].kind = "BadRequest" /\ outcome[c].status_code = 401

\* C4: a call makes at most two sends, and every send carries an
\* Authorization header.
C4_AtMostTwoSendsWithAuth ==
    \A c \in Calls :
        /\ Len(sent[c]) <= 2
        /\ \A i \in 1..Len(sent[c]) :
              \E h \in sent[c][i].headers : h[1] = "Authorization"

C4_Witness ==
    \E c \in Calls :
        /\ Len(sent[c]) = 2
        /\ \E h \in sent[c][2].headers : h[1] = "Authorization"

\* C5: with auto_update false a token-expiry response is not refreshed and not
\* resent; the call raises BadRequest from that same response.
C5_NoRefreshWithoutAutoUpdate ==
    \A c \in Calls :
        (~auto_update /\ FirstIs(c, IsExpiredSignal)) =>
            /\ updates[c] = 0
            /\ Len(sent[c]) = 1
            /\ Len(recv[c]) = 1
            /\ pc[c] = "done"
            /\ outcome[c] = Raised("BadRequest", recv[c][1].data.message,
                                   recv[c][1].data.status, recv[c][1].status_code)

C5_Witness ==
    \E c \in Calls :
        /\ ~auto_update /\ FirstIs(c, IsExpiredSignal)
        /\ pc[c] = "done" /\ outcome[c].kind = "BadRequest" /\ outcome[c].status_code = 401

\* C6: every first response with a status code outside {200, 201} that is not
\* the token-expiry signal raises BadRequest with that status code and the
\* body's message, or the standard phrase when the body has no message field,
\* with no update and no resend.
C6_FailureRaisesBadRequest ==
    \A c \in Calls :
        (/\ FirstIs(c, IsResponse)
         /\ recv[c][1].status_code \notin {200, 201}
         /\ ~IsExpiredSignal(recv[c][1])) =>
            /\ pc[c] = "done"
            /\ updates[c] = 0
            /\ Len(sent[c]) = 1
            /\ outcome[c].kind = "BadRequest"
            /\ outcome[c].status_code = recv[c][1].status_code
            /\ outcome[c].message =
                  IF BodyMessage(recv[c][1]) # None THEN BodyMessage(recv[c][1])
                  ELSE StandardPhrase(recv[c][1].status_code)

\* C7: a first response with status 200 or 201 and a JSON body is returned as
\* it was parsed, with no update, no resend and no error.
C7_SuccessReturnsBody ==
    \A c \in Calls :
        FirstIs(c, IsJsonSuccess) =>
            /\ pc[c] = "done"
            /\ outcome[c] = Returned(recv[c][1].data)
            /\ updates[c] = 0
            /\ Len(sent[c]) = 1
            /\ Len(recv[c]) = 1

C7_Witness ==
    \E c \in Calls :
        /\ FirstIs(c, IsJsonSuccess) /\ recv[c][1].status_code = 201
        /\ pc[c] = "done" /\ outcome[c].kind = "return"

\* C8: a transport failure on the first send or on the resend surfaces as
\* HTTPError and ends the call: no further send and no token.update follow it.
C8_TransportFailureSurfaces ==
    \A c \in Calls :
        \A i \in 1..Len(recv[c]) :
            recv[c][i] = TransportFailure =>
                /\ pc[c] = "done"
                /\ outcome[c].kind = "HTTPError"
                /\ Len(recv[c]) = i
                /\ Len(sent[c]) = i
                /\ updates[c] = i - 1

C8_Witness ==
    \E c \in Calls :
        /\ Len(recv[c]) = 2 /\ recv[c][2] = TransportFailure
        /\ pc[c] = "done" /\ outcome[c].kind = "HTTPError"

\* C9: every call ends in a returned data mapping, a BadRequest or an
\* HTTPError, and in nothing else.
C9_ThreeOutcomes ==
    \A c \in Calls :
        pc[c] = "done" => outcome[c].kind \in {"return", "BadRequest", "HTTPError"}

\* C10: a 200 response whose body is not JSON and holds the version marker is
\* returned as {api_version: <version>}.
C10_VersionMarkerReturned ==
    \A c \in Calls :
        (/\ Len(recv[c]) >= 1
         /\ recv[c][1] = TextResponse(200, "API version: 4.12")) =>
            /\ pc[c] = "done"
            /\ outcome[c] = Returned(Dict(None, None, "4.12"))

\* C11: a first response whose body is neither JSON nor holds a version marker
\* is classified as {message: <standard phrase>}, never as token-expired, and
\* the status code alone decides: returned for 200/201, BadRequest otherwise.
C11_NonJsonDefaultsToPhrase ==
    \A c \in Calls :
        (/\ Len(recv[c]) >= 1
         /\ recv[c][1].kind = "text"
         /\ API_VERSION_RE(recv[c][1].text) = None) =>
            /\ pc[c] = "done"
            /\ updates[c] = 0
            /\ outcome[c] =
                  IF recv[c][1].status_code \in {200, 201}
                  THEN Returned(Dict(None, StandardPhrase(recv[c][1].status_code), None))
                  ELSE Raised("BadRequest", StandardPhrase(recv[c][1].status_code), None,
                              recv[c][1].status_code)

\* The executor's algorithm as a function of the transport results rs and the
\* auto_update flag au: the sends and updates it makes and how it ends
Expected(rs, au) ==
    LET cr1 == _request(rs[1])
        cr2 == _request(rs[2])
    IN  IF cr1.exc.kind # "pending"
        THEN [sends |-> 1, updates |-> 0, outcome |-> cr1.exc]
        ELSE IF cr1.response.token_expired /\ au
        THEN [sends |-> 2, updates |-> 1,
              outcome |-> IF cr2.exc.kind # "pending" THEN cr2.exc
                          ELSE _finish(cr2.response)]
        ELSE [sends |-> 1, updates |-> 0, outcome |-> _finish(cr1.response)]

\* C15: the blocking and the suspending executor implement one algorithm: in
\* either mode a finished call has made the sends and updates, with the
\* headers, and has the outcome that the same function of its transport
\* results, its token value and auto_update gives.
C15_SameAlgorithmInBothModes ==
    \A c \in Calls :
        pc[c] = "done" =>
            /\ [sends |-> Len(sent[c]), updates |-> updates[c], outcome |-> outcome[c]]
                  = Expected(recv[c], auto_update)
            /\ Len(recv[c]) = Len(sent[c])
            /\ \A i \in 1..Len(sent[c]) : sent[c][i].headers = Bearer(token_value[c])

C15_Witness ==
    \E c \in Calls :
        /\ is_async /\ pc[c] = "done" /\ Len(sent[c]) = 2 /\ updates[c] = 1
        /\ outcome[c] = Expected(recv[c], auto_update).outcome
        /\ outcome[c].kind = "return"

\* C17: within a call no send is made before token.get has returned, no
\* update before the first response is classified, and no resend before the
\* call's update has returned, under every interleaving of the calls.
C17_StepsInOrder ==
    \A c \in Calls :
        /\ Len(sent[c]) >= 1 => token_value[c] # 0
        /\ Len(recv[c]) <= Len(sent[c])
        /\ Len(sent[c]) <= Len(recv[c]) + 1
        /\ updates[c] >= 1 => (Len(recv[c]) >= 1 /\ Len(sent[c]) >= 1)
        /\ Len(sent[c]) >= 2 => (updates[c] >= 1 /\ refreshed[c] # 0)
        /\ (updates[c] >= 1) <=> (refreshed[c] # 0)

C17_Witness ==
    /\ is_async
    /\ \E c, d \in Calls :
          /\ c # d
          /\ Len(sent[c]) = 2 /\ refreshed[c] # 0
          /\ pc[d] = "wait1" /\ token_value[d] = refreshed[c]

RECURSIVE SumUpdates(_)
SumUpdates(S) ==
    IF S = {} THEN 0
    ELSE LET c == CHOOSE x \in S : TRUE IN updates[c] + SumUpdates(S \ {c})

\* C18: the resend is the first send over again (method, URL, body), the
\* request's headers are assigned once, before the first send, and the held
\* token changes through token.update only.
C18_RequestAndTokenFrame ==
    /\ \A c \in Calls :
          /\ Len(sent[c]) = 0 => req[c].headers = {}
          /\ Len(sent[c]) >= 1 => req[c] = sent[c][1]
          /\ Len(sent[c]) = 2 => sent[c][2] = sent[c][1]
    /\ held = 1 + SumUpdates(Calls)

C18_Witness ==
    \E c \in Calls :
        /\ Len(sent[c]) = 2 /\ sent[c][2].method = sent[c][1].method
        /\ sent[c][2].url = sent[c][1].url /\ sent[c][2].data = sent[c][1].data
        /\ held > 1

\* C19: when the transport and the token provider answer, every call ends by
\* returning or raising, after at most two sends and one update.
C19_EveryCallFinishes ==
    \A c \in Calls :
        <>[](/\ pc[c] = "done"
             /\ outcome[c].kind # "pending"
             /\ Len(sent[c]) <= 2
             /\ updates[c] <= 1)

C19_Witness ==
    /\ \A c \in Calls : pc[c] = "done" /\ outcome[c].kind # "pending"
    /\ \E c \in Calls : Len(sent[c]) = 2 /\ updates[c] = 1

\* the calls whose first response was the token-expiry signal
ExpiredCalls == { c \in Calls : FirstIs(c, IsExpiredSignal) }

\* the calls that have invoked token.update
RefreshedCalls == { c \in Calls : updates[c] >= 1 }

\* C20: concurrent async calls on one provider with auto_update refresh each
\* for itself: a call invokes token.update exactly once iff its first response
\* was token-expired, the provider has been updated once per such call, never
\* more often than there are calls, and no call makes more than two sends.
C20_RefreshPerCall ==
    (is_async /\ auto_update) =>
        /\ \A c \in Calls :
              /\ updates[c] <= 1
              /\ Len(sent[c]) <= 2
              /\ (c \in ExpiredCalls /\ pc[c] # "refresh") => updates[c] = 1
        /\ RefreshedCalls \subseteq ExpiredCalls
        /\ held = 1 + Cardinality(RefreshedCalls)
        /\ Cardinality(RefreshedCalls) <= NumCalls
        /\ (\A c \in Calls : pc[c] = "done") => RefreshedCalls = ExpiredCalls

C20_Witness ==
    /\ is_async /\ auto_update
    /\ \E c, d \in Calls :
          /\ c # d
          /\ token_value[c] = 1 /\ token_value[d] = 1
          /\ updates[c] = 1 /\ updates[d] = 1
          /\ pc[c] = "done" /\ pc[d] = "done"
          /\ held = 3

\* the payload handed over as a dict (None counts as the empty dict), and the
\* body of the request built from it
GivenPayload == IF invocation.payload = NoData THEN EmptyDict ELSE invocation.payload

BuiltBody == req[invocation.call].data

\* a phone value without its '+' and space characters
Stripped(phone) == SelectSeq(phone, LAMBDA ch : ch \notin {"+", " "})

\* from_whom is renamed to from, mobile_phone is stripped, and the fields in
\* Others are as they were
NormalizedKeeping(Others) ==
    /\ "from_whom" \notin DOMAIN BuiltBody
    /\ "from_whom" \in DOMAIN GivenPayload =>
          ("from" \in DOMAIN BuiltBody /\ BuiltBody["from"] = GivenPayload["from_whom"])
    /\ "mobile_phone" \in DOMAIN GivenPayload =>
          /\ "mobile_phone" \in DOMAIN BuiltBody
          /\ BuiltBody["mobile_phone"] = Stripped(GivenPayload["mobile_phone"])
    /\ \A k \in Others : k \in DOMAIN BuiltBody /\ BuiltBody[k] = GivenPayload[k]
    /\ DOMAIN BuiltBody \subseteq
          (DOMAIN GivenPayload \ {"from_whom"})
             \cup (IF "from_whom" \in DOMAIN GivenPayload THEN {"from"} ELSE {})
    /\ GivenPayload = [from_whom |-> "4546", mobile_phone |-> ExamplePhone] =>
          BuiltBody = [from |-> "4546",
                       mobile_phone |-> <<"9", "9", "8", "9", "0", "1", "2", "3",
                                          "4", "5", "6", "7">>]

\* C12 as stated: Request.__call__ renames from_whom to from, strips '+' and
\* spaces from mobile_phone, and leaves all other fields unchanged.
C12_AllOtherFieldsUnchanged ==
    invocation.kind = "__call__" =>
        NormalizedKeeping(DOMAIN GivenPayload \ {"from_whom", "mobile_phone"})

\* C12 amended: as stated, except that a from field the payload already has is
\* replaced by the from_whom value when both are given.
C12_PayloadNormalized ==
    invocation.kind = "__call__" =>
        NormalizedKeeping(DOMAIN GivenPayload
                             \ ({"from_whom", "mobile_phone"}
                                  \cup (IF "from_whom" \in DOMAIN GivenPayload
                                        THEN {"from"} ELSE {})))

C12_Witness ==
    /\ invocation.kind = "__call__"
    /\ invocation.payload = [from_whom |-> "4546", mobile_phone |-> ExamplePhone]
    /\ "from" \in DOMAIN BuiltBody /\ Len(BuiltBody["mobile_phone"]) = 12

\* C13: the wrapper of a decorated endpoint builds its request from the
\* normalized return value of the payload-builder.
C13_WrapperNormalizes ==
    invocation.kind = "_wrapper" => BuiltBody = _prepare_payload(invocation.payload)

\* C14: in async mode the endpoint wrapper returns a deferred handle (Coro)
\* without doing any I/O.
C14_AsyncReturnsHandle ==
    (invocation.kind = "_wrapper" /\ is_async) =>
        /\ invocation.result = "Coro"
        /\ sent[invocation.call] = <<>>

\* the HTTP method each declaring function stands for
VerbMethod ==
    [v \in {"post", "put", "get", "delete", "patch"} |->
        CASE v = "post" -> "POST" [] v = "put" -> "PUT" [] v = "get" -> "GET"
          [] v = "delete" -> "DELETE" [] v = "patch" -> "PATCH"]

\* C16: an endpoint declared through get/post/put/patch/delete with path p is
\* a callable that sends the declared method to base URL + p.
C16_DeclaredEndpointCallable ==
    endpoint.via \in DOMAIN VerbMethod =>
        /\ endpoint.state = "bound"
        /\ endpoint.method = VerbMethod[endpoint.via]
        /\ invocation.kind = "_wrapper" =>
              /\ req[invocation.call].method = endpoint.method
              /\ req[invocation.call].url = _url(endpoint.path)

=============================================================================
